---- MODULE Spec2Model ----
(***************************************************************************)
(* Job lifecycle engine of app.py: the in-memory job queue and job store,  *)
(* the image generation worker, the cleanup worker and the three HTTP      *)
(* handlers (/process-image, /status/<id>, /result/<id>), as threads that  *)
(* interleave at the granularity of their accesses to the shared state.    *)
(* Accesses made inside "with queue_lock" are guarded by the lock; the     *)
(* accesses the code makes outside the lock are separate, unguarded steps. *)
(***************************************************************************)
EXTENDS Integers, Sequences, FiniteSets, TLC

\* ------------------------------------------------------------------ bounds
MaxJobs == 3            \* job ids 1..MaxJobs stand for the uuid4 values
MaxSweptJobs == 2       \* the ids handed out in the runs that include the cleanup worker
MaxQueriedJobs == 1     \* the ids handed out in the runs that also serve /status and /result
MaxTime == 2            \* time.time() takes the values 0..MaxTime
MaxWaitingJobs == 2     \* the ids handed out in the runs that ask for queue positions

\* ------------------------------------------------- configuration (Config)
MAX_QUEUE_SIZE == 2
JOB_RESULT_TTL == 1

JobIds == 1..MaxJobs
\* request-handling threads: two that serve POST /process-image concurrently
\* and one that serves GET /status/<id> and GET /result/<id>
Clients == {"client1", "client2"}
Reader == "reader"
Threads == Clients \cup {Reader}
None == 0               \* Python None for a job id / job reference
Absent == -1            \* a key that is not in a dict; queue_pos = -1
\* submit_time and start_time are written and never read by the program: the
\* model keeps whether the key is set, not the value of the clock
Stamped == "set"
NotStamped == "unset"

ErrOOM == "Processing failed due to insufficient GPU memory. Try a smaller image size or reduce batch size."
ErrRuntime == "An unexpected error occurred. This may be a resource issue."
ErrServer == "An unexpected server error occurred."
ErrUnknown == "An unknown error occurred."
ErrBusy == "Server is currently busy. Please try again in a moment."
ErrBadRequest == "bad request"
ErrNotFound == "Job ID not found."
ErrMissing == "Result for this job is missing."
ErrInternal == "Internal Server Error"
ErrNotReady == "Job is not yet complete."
NoError == ""

VARIABLES
    job_queue,      \* deque of job ids
    job_results,    \* keys of the job_results dict, in insertion order
    rec,            \* the record dict object of each job id (lives on while referenced)
    files,          \* job ids whose result file <id>.png exists in RESULTS_FOLDER
    queue_lock,     \* "free" or the thread that holds it
    now,            \* time.time()
    next_id,        \* the next fresh uuid
    w_pc, w_job,    \* image_generation_worker: position, job_id
    s_pc, s_expired, s_time,   \* job_cleanup_worker: position, expired_jobs, current_time
    req,            \* per request-handling thread: position and locals of its handler
    delete_warnings,           \* paths of the "Could not delete result file" warnings logged
    appended, dequeued,        \* history: ids in the order appended / popped
    terminal_at,               \* history: when each job became completed or failed
    saved_as                   \* history: the result_path the completing update stored

vars == <<job_queue, job_results, rec, files, queue_lock, now, next_id,
          w_pc, w_job, s_pc, s_expired, s_time,
          req, delete_warnings, appended, dequeued, terminal_at, saved_as>>

shared == <<job_queue, job_results, rec, files>>
workerVars == <<w_pc, w_job>>
sweeperVars == <<s_pc, s_expired, s_time>>
clientVars == <<req>>
history == <<appended, dequeued, delete_warnings, terminal_at, saved_as>>

\* ------------------------------------------------------------- helpers
Range(s) == {s[i] : i \in 1..Len(s)}

\* a record before it is created
NoRecord ==
    [status |-> "none", params |-> {}, submit_time |-> NotStamped, start_time |-> NotStamped,
     completion_time |-> Absent, result_path |-> None, error |-> NoError]

\* job_results[job_id] = {"status": "queued", "params": ..., "submit_time": ...}
NewRecord ==
    [status |-> "queued", params |-> {"image", "generator", "seed_value"},
     submit_time |-> Stamped, start_time |-> NotStamped,
     completion_time |-> Absent, result_path |-> None, error |-> NoError]

\* job_id in job_results
Present(j) == j \in Range(job_results)

\* del job_results[job_id]
DelKey(keys, j) == SelectSeq(keys, LAMBDA k : k # j)

\* mutant: list(job_queue).index(job_id) without the "+ 1"
IndexOfZeroBased(q, j) ==
    IF j \in Range(q) THEN (CHOOSE i \in 1..Len(q) : q[i] = j /\ \A k \in 1..(i-1) : q[k] # j) - 1
    ELSE Absent

\* list(job_queue).index(job_id) + 1, or Absent on ValueError
IndexOf(q, j) ==
    IF j \in Range(q) THEN CHOOSE i \in 1..Len(q) : q[i] = j /\ \A k \in 1..(i-1) : q[k] # j
    ELSE Absent

NoResp == [code |-> 0, error |-> NoError, job_id |-> None, status |-> "none",
           queue_position |-> Absent, file |-> None]

Resp(code, err, j, st, pos, f) ==
    [code |-> code, error |-> err, job_id |-> j, status |-> st,
     queue_position |-> pos, file |-> f]

\* a request-handling thread between requests; of a handler that has returned
\* (pc = "done") the response and two history fields are kept until the thread
\* takes its next request: "seen", the status the lookup of get_status or
\* get_result found, and "worker_was", whether the worker was holding a job
\* ("busy") or not ("idle") when the capacity check of generate_image_endpoint ran
NoRequest ==
    [pc |-> "idle", job_id |-> None, job |-> None, queue_pos |-> Absent,
     response |-> NoResp, seen |-> "none", worker_was |-> "unknown"]

\* ---------------------------------------------------------------- Init
Init ==
    /\ job_queue = <<>>
    /\ job_results = <<>>
    /\ rec = [j \in JobIds |-> NoRecord]
    /\ files = {}
    /\ queue_lock = "free"
    /\ now = 0
    /\ next_id = 1
    /\ w_pc = "idle"
    /\ w_job = None
    /\ s_pc = "sleep"
    /\ s_expired = <<>>
    /\ s_time = Absent
    /\ req = [c \in Threads |-> NoRequest]
    /\ delete_warnings = {}
    /\ appended = <<>>
    /\ dequeued = <<>>
    /\ terminal_at = [j \in JobIds |-> Absent]
    /\ saved_as = [j \in JobIds |-> None]

\* time.time() advances
Tick ==
    /\ now < MaxTime
    /\ now' = now + 1
    /\ UNCHANGED <<shared, queue_lock, next_id, workerVars, sweeperVars, clientVars, history>>

\* ------------------------------------------------ image_generation_worker
\* mutant: job_queue.pop(), the newest id instead of the oldest
PopRight(q) == <<q[Len(q)], SubSeq(q, 1, Len(q) - 1)>>

\* mutant: job_queue[0], the head is read and stays in the queue
PeekLeft(q) == <<Head(q), q>>

\* job_queue.popleft(): the id returned and the queue left behind
PopLeft(q) == <<Head(q), Tail(q)>>

\* mutant: only the start time is recorded, the status is left at "queued"
MarkStartOnly(r) == [r EXCEPT !.start_time = Stamped]

\* job_results[job_id]["status"] = "processing"; ["start_time"] = time.time()
MarkProcessing(r) == [r EXCEPT !.status = "processing", !.start_time = Stamped]

\* mutant: the update stores no "result_path" (the result is kept as a buffer)
UpdateCompletedNoPath(r, path, t) ==
    [r EXCEPT !.status = "completed", !.completion_time = t]

\* job_results[job_id].update({"status": "completed", "result_path": ..., "completion_time": ...})
UpdateCompleted(r, path, t) ==
    [r EXCEPT !.status = "completed", !.result_path = path, !.completion_time = t]

\* mutant: the except clauses record the error and leave the status as it is
UpdateFailedErrorOnly(r, msg) == [r EXCEPT !.error = msg]

\* job_results[job_id].update({"status": "failed", "error": error_message})
UpdateFailed(r, msg) == [r EXCEPT !.status = "failed", !.error = msg]

\* with queue_lock: if job_queue: job_id = job_queue.popleft()
WorkerDequeue ==
    /\ w_pc = "idle"
    /\ queue_lock = "free"
    /\ IF job_queue # <<>>
       THEN /\ w_job' = PopLeft(job_queue)[1]
            /\ job_queue' = PopLeft(job_queue)[2]
            /\ dequeued' = Append(dequeued, PopLeft(job_queue)[1])
            /\ queue_lock' = "worker"
            /\ w_pc' = "mark"
       ELSE /\ w_job' = None       \* time.sleep(0.1), next iteration
            /\ w_pc' = "idle"
            /\ UNCHANGED <<job_queue, dequeued, queue_lock>>
    /\ UNCHANGED <<job_results, rec, files, now, next_id, sweeperVars, clientVars, appended,
                   delete_warnings, terminal_at, saved_as>>

\* still inside the lock: status = "processing", start_time; then the lock is released
WorkerMark ==
    /\ w_pc = "mark"
    /\ queue_lock = "worker"
    /\ IF Present(w_job)
       THEN /\ rec' = [rec EXCEPT ![w_job] = MarkProcessing(rec[w_job])]
            /\ w_pc' = "prep"
       ELSE /\ w_pc' = "dead"      \* KeyError leaves the thread
            /\ UNCHANGED rec
    /\ queue_lock' = "free"
    /\ UNCHANGED <<job_queue, job_results, files, now, next_id, w_job, sweeperVars,
                   clientVars, history>>

\* pipe_kwargs = job_results[job_id]["params"]; ...; pipe_kwargs.pop("seed_value")
WorkerPrep ==
    /\ w_pc = "prep"
    /\ IF Present(w_job)
       THEN /\ rec' = [rec EXCEPT ![w_job].params = @ \ {"seed_value"}]
            /\ w_pc' = "pipe"
       ELSE /\ w_pc' = "dead"
            /\ UNCHANGED rec
    /\ UNCHANGED <<job_queue, job_results, files, queue_lock, now, next_id, w_job,
                   sweeperVars, clientVars, history>>

\* what pipe(**pipe_kwargs).images[0] can do: return, or raise one of the
\* three classes the except clauses tell apart
PipeOutcomes == {"save", "exc_oom", "exc_runtime", "exc_other"}

\* processed_image = pipe(**pipe_kwargs).images[0]
WorkerPipe ==
    /\ w_pc = "pipe"
    /\ \E o \in PipeOutcomes : w_pc' = o
    /\ UNCHANGED <<shared, queue_lock, now, next_id, w_job, sweeperVars, clientVars, history>>

\* processed_image.save(result_path, "PNG"): writes the file, or raises
WorkerSave ==
    /\ w_pc = "save"
    /\ \/ /\ files' = files \cup {w_job}
          /\ w_pc' = "complete"
       \/ /\ w_pc' = "exc_other"
          /\ UNCHANGED files
    /\ UNCHANGED <<job_queue, job_results, rec, queue_lock, now, next_id, w_job,
                   sweeperVars, clientVars, history>>

\* with queue_lock: job_results[job_id].update({... "completed" ...})
WorkerComplete ==
    /\ w_pc = "complete"
    /\ queue_lock = "free"
    /\ IF Present(w_job)
       THEN /\ rec' = [rec EXCEPT ![w_job] = UpdateCompleted(rec[w_job], w_job, now)]
            /\ terminal_at' = [terminal_at EXCEPT ![w_job] = now]
            /\ saved_as' = [saved_as EXCEPT ![w_job] = w_job]
            /\ w_pc' = "finally"
       ELSE /\ w_pc' = "exc_other"  \* KeyError is caught by "except Exception"
            /\ UNCHANGED <<rec, terminal_at, saved_as>>
    /\ UNCHANGED <<job_queue, job_results, files, queue_lock, now, next_id, w_job,
                   sweeperVars, clientVars, appended, dequeued, delete_warnings>>

\* mutant: no "except Exception" clause
CaughtNoGeneric(pc) == pc \in {"exc_oom", "exc_runtime"}

\* the exceptions that one of the except clauses catches: OutOfMemoryError,
\* RuntimeError, Exception
Caught(pc) == pc \in {"exc_oom", "exc_runtime", "exc_other"}

\* mutant: "except RuntimeError" stands before "except torch.cuda.OutOfMemoryError",
\* a subclass of it, and takes the out-of-memory errors too
FailureMessageRuntimeFirst(pc) ==
    CASE pc \in {"exc_oom", "exc_runtime"} -> ErrRuntime
      [] OTHER -> ErrServer

\* the message each except clause records
FailureMessage(pc) ==
    CASE pc = "exc_oom" -> ErrOOM
      [] pc = "exc_runtime" -> ErrRuntime
      [] OTHER -> ErrServer

\* except ...: with queue_lock: job_results[job_id].update({"status": "failed", "error": ...})
\* an exception that no clause catches, or one raised in the handler, runs the
\* finally block and leaves the loop
WorkerFail ==
    /\ w_pc \in {"exc_oom", "exc_runtime", "exc_other"}
    /\ IF Caught(w_pc)
       THEN /\ queue_lock = "free"
            /\ IF Present(w_job)
               THEN /\ rec' = [rec EXCEPT ![w_job] = UpdateFailed(rec[w_job], FailureMessage(w_pc))]
                    /\ terminal_at' = [terminal_at EXCEPT ![w_job] = now]
                    /\ w_pc' = "finally"
               ELSE /\ w_pc' = "finally_raise"
                    /\ UNCHANGED <<rec, terminal_at>>
       ELSE /\ w_pc' = "finally_raise"
            /\ UNCHANGED <<rec, terminal_at>>
    /\ UNCHANGED <<job_queue, job_results, files, queue_lock, now, next_id, w_job,
                   sweeperVars, clientVars, appended, dequeued, delete_warnings, saved_as>>

\* finally: if "params" in job_results.get(job_id, {}):
WorkerFinally ==
    /\ w_pc \in {"finally", "finally_raise"}
    /\ w_pc' = IF Present(w_job) THEN "del_image"
               ELSE IF w_pc = "finally_raise" THEN "dead" ELSE "sleep"
    /\ UNCHANGED <<shared, queue_lock, now, next_id, w_job, sweeperVars, clientVars, history>>

\* del job_results[job_id]["params"]["image"]
WorkerDelImage ==
    /\ w_pc = "del_image"
    /\ IF Present(w_job) /\ "image" \in rec[w_job].params
       THEN /\ rec' = [rec EXCEPT ![w_job].params = @ \ {"image"}]
            /\ w_pc' = "del_generator"
       ELSE /\ w_pc' = "dead"
            /\ UNCHANGED rec
    /\ UNCHANGED <<job_queue, job_results, files, queue_lock, now, next_id, w_job,
                   sweeperVars, clientVars, history>>

\* del job_results[job_id]["params"]["generator"]
WorkerDelGenerator ==
    /\ w_pc = "del_generator"
    /\ IF Present(w_job) /\ "generator" \in rec[w_job].params
       THEN /\ rec' = [rec EXCEPT ![w_job].params = @ \ {"generator"}]
            /\ w_pc' = "sleep"
       ELSE /\ w_pc' = "dead"
            /\ UNCHANGED rec
    /\ UNCHANGED <<job_queue, job_results, files, queue_lock, now, next_id, w_job,
                   sweeperVars, clientVars, history>>

\* time.sleep(0.1), then the next iteration: job_id = None
WorkerSleep ==
    /\ w_pc = "sleep"
    /\ w_pc' = "idle"
    /\ w_job' = None
    /\ UNCHANGED <<shared, queue_lock, now, next_id, sweeperVars, clientVars, history>>

Worker ==
    \/ WorkerDequeue \/ WorkerMark \/ WorkerPrep \/ WorkerPipe \/ WorkerSave
    \/ WorkerComplete \/ WorkerFail \/ WorkerFinally \/ WorkerDelImage
    \/ WorkerDelGenerator \/ WorkerSleep

\* ---------------------------------------------------- job_cleanup_worker
\* mutant: the difference taken the wrong way round
ExpiredReversed(r, t) ==
    /\ r.completion_time # Absent
    /\ (r.completion_time - t) > JOB_RESULT_TTL

\* mutant: job.get("completion_time", 0) in place of the "completion_time" in job test
ExpiredDefaultZero(r, t) ==
    (t - (IF r.completion_time = Absent THEN 0 ELSE r.completion_time)) > JOB_RESULT_TTL

\* "completion_time" in job and (current_time - job["completion_time"]) > Config.JOB_RESULT_TTL
Expired(r, t) ==
    /\ r.completion_time # Absent
    /\ (t - r.completion_time) > JOB_RESULT_TTL

\* expired_jobs: the expired ids, in the order of list(job_results.keys())
ExpiredJobs(keys, t) == SelectSeq(keys, LAMBDA j : Expired(rec[j], t))

\* with queue_lock: current_time = time.time(); the scan that fills expired_jobs;
\* "if expired_jobs:" is false: the lock is released again
SweepBegin ==
    /\ s_pc = "sleep"
    /\ queue_lock = "free"
    /\ s_time' = now
    /\ s_expired' = ExpiredJobs(job_results, now)
    /\ IF ExpiredJobs(job_results, now) # <<>>
       THEN /\ queue_lock' = "sweeper"
            /\ s_pc' = "delete"
       ELSE /\ s_pc' = "sleep"
            /\ UNCHANGED queue_lock
    /\ UNCHANGED <<shared, now, next_id, workerVars, clientVars, history>>

\* mutant: os.remove is called without the try/except around it
SweepCatchesNothing(exc) == FALSE

\* except OSError as e: the exceptions of os.remove that the sweep catches
SweepCatches(exc) == exc = "OSError"

\* the rest of a round of the loop: del job_results[job_id]; after the last
\* round the lock is released
SweepDelRecord(job_id) ==
    /\ job_results' = DelKey(job_results, job_id)
    /\ s_expired' = Tail(s_expired)
    /\ IF Tail(s_expired) = <<>>
       THEN /\ s_pc' = "sleep"
            /\ queue_lock' = "free"
       ELSE UNCHANGED <<s_pc, queue_lock>>

\* one round of "for job_id in expired_jobs": os.remove(result_path), which
\* succeeds or raises OSError (caught and logged), then del job_results[job_id];
\* an exception that is not caught leaves the "with" block and the thread
SweepDelete ==
    /\ s_pc = "delete"
    /\ queue_lock = "sweeper"
    /\ s_expired # <<>>
    /\ LET job_id == Head(s_expired)
           path == rec[job_id].result_path
       IN  \/ /\ path = None                    \* "result_path" not in job_to_delete
              /\ UNCHANGED <<files, delete_warnings>>
              /\ SweepDelRecord(job_id)
           \/ /\ path # None /\ path \in files   \* os.remove deletes the file
              /\ files' = files \ {path}
              /\ UNCHANGED delete_warnings
              /\ SweepDelRecord(job_id)
           \/ /\ path # None                    \* os.remove raises OSError
              /\ UNCHANGED files
              /\ IF SweepCatches("OSError")
                 THEN /\ delete_warnings' = delete_warnings \cup {path}
                      /\ SweepDelRecord(job_id)
                 ELSE /\ s_pc' = "dead"
                      /\ queue_lock' = "free"
                      /\ UNCHANGED <<job_results, s_expired, delete_warnings>>
    /\ UNCHANGED <<job_queue, rec, now, next_id, workerVars, s_time, clientVars, appended,
                   dequeued, terminal_at, saved_as>>

Sweeper == SweepBegin \/ SweepDelete

\* ------------------------------------------------------- request handlers
\* mutant: ">" for ">=", one job more is let in
QueueFullOffByOne(q) == Len(q) > MAX_QUEUE_SIZE

\* mutant: the job the worker is processing counts against the capacity
QueueFullCountingActive(q) == Len(q) + (IF w_job # None THEN 1 ELSE 0) >= MAX_QUEUE_SIZE

\* len(job_queue) >= app.config["MAX_QUEUE_SIZE"]
QueueFull(q) == Len(q) >= MAX_QUEUE_SIZE

\* a thread that is free to take a request
Free(c) == req[c].pc \in {"idle", "done"}

\* the handler returns resp; its locals are gone
Finish(c, resp) ==
    req' = [req EXCEPT ![c] = [NoRequest EXCEPT !.pc = "done", !.response = resp,
                                               !.job_id = req[c].job_id,
                                               !.seen = req[c].seen,
                                               !.worker_was = req[c].worker_was]]

\* the handler moves on to position pc
Goto(c, pc) == req' = [req EXCEPT ![c].pc = pc]

\* generate_image_endpoint: with queue_lock: if len(job_queue) >= MAX_QUEUE_SIZE: return 503
SubmitCheck(c) ==
    /\ Free(c)
    /\ queue_lock = "free"
    /\ IF QueueFull(job_queue)
       THEN req' = [req EXCEPT ![c] = [NoRequest EXCEPT !.pc = "done",
                        !.worker_was = IF w_job = None THEN "idle" ELSE "busy",
                        !.response = Resp(503, ErrBusy, None, "none", Absent, None)]]
       ELSE req' = [req EXCEPT ![c] = [NoRequest EXCEPT !.pc = "sub_validate",
                        !.worker_was = IF w_job = None THEN "idle" ELSE "busy"]]
    /\ UNCHANGED <<shared, queue_lock, now, next_id, workerVars, sweeperVars, history>>

\* "image" not in request.files, or parse_request_args raises ValueError: 400;
\* otherwise job_id = str(uuid.uuid4())
SubmitValidate(c, cap) ==
    /\ req[c].pc = "sub_validate"
    /\ \/ /\ Finish(c, Resp(400, ErrBadRequest, None, "none", Absent, None))
          /\ UNCHANGED next_id
       \/ /\ next_id <= cap
          /\ req' = [req EXCEPT ![c].pc = "sub_enqueue", ![c].job_id = next_id]
          /\ next_id' = next_id + 1
    /\ UNCHANGED <<shared, queue_lock, now, workerVars, sweeperVars, history>>

\* with queue_lock: job_results[job_id] = {...}; job_queue.append(job_id); return 202
SubmitEnqueue(c) ==
    /\ req[c].pc = "sub_enqueue"
    /\ queue_lock = "free"
    /\ rec' = [rec EXCEPT ![req[c].job_id] = NewRecord]
    /\ job_results' = Append(job_results, req[c].job_id)
    /\ job_queue' = Append(job_queue, req[c].job_id)
    /\ appended' = Append(appended, req[c].job_id)
    /\ Finish(c, Resp(202, NoError, req[c].job_id, "none", Absent, None))
    /\ UNCHANGED <<files, queue_lock, now, next_id, workerVars, sweeperVars,
                   dequeued, delete_warnings, terminal_at, saved_as>>

\* with queue_lock: job = job_results.get(job_id); if not job: return 404
\* (the first lines of get_status and of get_result)
Lookup(c, j, next) ==
    /\ Free(c)
    /\ queue_lock = "free"
    /\ IF Present(j)
       THEN req' = [req EXCEPT ![c] = [NoRequest EXCEPT !.pc = next, !.job_id = j,
                                                         !.job = j, !.seen = rec[j].status]]
       ELSE req' = [req EXCEPT ![c] = [NoRequest EXCEPT !.pc = "done", !.job_id = j,
                        !.response = Resp(404, ErrNotFound, None, "none", Absent, None)]]
    /\ UNCHANGED <<shared, queue_lock, now, next_id, workerVars, sweeperVars, history>>

\* get_status, first lines
StatusLookup(c, j) == Lookup(c, j, "st_status")

\* queue_pos = -1; if job["status"] == "queued":
StatusReadStatus(c) ==
    /\ req[c].pc = "st_status"
    /\ Goto(c, IF rec[req[c].job].status = "queued" THEN "st_index" ELSE "st_response")
    /\ UNCHANGED <<shared, queue_lock, now, next_id, workerVars, sweeperVars, history>>

\* try: queue_pos = list(job_queue).index(job_id) + 1; except ValueError: pass
StatusIndex(c) ==
    /\ req[c].pc = "st_index"
    /\ req' = [req EXCEPT ![c].pc = "st_response",
                          ![c].queue_pos = IndexOf(job_queue, req[c].job_id)]
    /\ UNCHANGED <<shared, queue_lock, now, next_id, workerVars, sweeperVars, history>>

\* response = {"job_id": job_id, "status": job.get("status")};
\* if queue_pos != -1: response["queue_position"] = queue_pos
StatusResponse(c) ==
    /\ req[c].pc = "st_response"
    /\ req' = [req EXCEPT ![c].pc = "st_error",
                          ![c].response = Resp(200, NoError, req[c].job_id,
                                               rec[req[c].job].status, req[c].queue_pos, None)]
    /\ UNCHANGED <<shared, queue_lock, now, next_id, workerVars, sweeperVars, history>>

\* if "error" in job: response["error"] = job["error"]; return jsonify(response)
StatusError(c) ==
    /\ req[c].pc = "st_error"
    /\ Finish(c, [req[c].response EXCEPT !.error = rec[req[c].job].error])
    /\ UNCHANGED <<shared, queue_lock, now, next_id, workerVars, sweeperVars, history>>

\* get_result, first lines
ResultLookup(c, j) == Lookup(c, j, "rs_status")

\* if job.get("status") == "completed":
ResultReadStatus(c) ==
    /\ req[c].pc = "rs_status"
    /\ Goto(c, IF rec[req[c].job].status = "completed" THEN "rs_exists" ELSE "rs_failed")
    /\ UNCHANGED <<shared, queue_lock, now, next_id, workerVars, sweeperVars, history>>

\* result_path = job.get("result_path"); if result_path and os.path.exists(result_path):
\* else: return 500 "Result for this job is missing."
ResultExists(c) ==
    /\ req[c].pc = "rs_exists"
    /\ LET result_path == rec[req[c].job].result_path IN
         IF result_path # None /\ result_path \in files
         THEN Goto(c, "rs_send")
         ELSE Finish(c, Resp(500, ErrMissing, None, "none", Absent, None))
    /\ UNCHANGED <<shared, queue_lock, now, next_id, workerVars, sweeperVars, history>>

\* return send_file(result_path, mimetype="image/png"); a file that is gone by
\* now raises, which the 500 error handler turns into "Internal Server Error"
ResultSend(c) ==
    /\ req[c].pc = "rs_send"
    /\ LET result_path == rec[req[c].job].result_path IN
         IF result_path \in files
         THEN Finish(c, Resp(200, NoError, None, "none", Absent, result_path))
         ELSE Finish(c, Resp(500, ErrInternal, None, "none", Absent, None))
    /\ UNCHANGED <<shared, queue_lock, now, next_id, workerVars, sweeperVars, history>>

\* mutant: the message is looked up under a key the worker never sets
GetErrorWrongKey(r) == ErrUnknown

\* job.get("error", "An unknown error occurred.")
GetError(r) == IF r.error = NoError THEN ErrUnknown ELSE r.error

\* elif job.get("status") == "failed": return 500 with the job's error
ResultReadFailed(c) ==
    /\ req[c].pc = "rs_failed"
    /\ IF rec[req[c].job].status = "failed"
       THEN Finish(c, Resp(500, GetError(rec[req[c].job]), None, "none", Absent, None))
       ELSE Goto(c, "rs_pending")
    /\ UNCHANGED <<shared, queue_lock, now, next_id, workerVars, sweeperVars, history>>

\* else: return 202 "Job is not yet complete. Current status: {job.get('status')}"
ResultPending(c) ==
    /\ req[c].pc = "rs_pending"
    /\ Finish(c, Resp(202, ErrNotReady, None, rec[req[c].job].status, Absent, None))
    /\ UNCHANGED <<shared, queue_lock, now, next_id, workerVars, sweeperVars, history>>

Submit(c, cap) == SubmitCheck(c) \/ SubmitValidate(c, cap) \/ SubmitEnqueue(c)

GetStatus(c, ids) ==
    \/ \E j \in ids : StatusLookup(c, j)
    \/ StatusReadStatus(c) \/ StatusIndex(c) \/ StatusResponse(c) \/ StatusError(c)

GetResult(c, ids) ==
    \/ \E j \in ids : ResultLookup(c, j)
    \/ ResultReadStatus(c) \/ ResultExists(c) \/ ResultSend(c)
    \/ ResultReadFailed(c) \/ ResultPending(c)

\* ------------------------------------------------------- specifications
\* Requests are submitted concurrently by the threads of Clients and the worker
\* runs; no /status or /result request arrives and the cleanup worker sleeps.
NextAdmission ==
    \/ Worker
    \/ \E c \in Clients : Submit(c, MaxJobs)

SpecAdmission == Init /\ [][NextAdmission]_vars

\* One thread submits, the worker and the cleanup worker run, time passes.
NextLifecycle ==
    \/ Tick
    \/ Worker
    \/ Sweeper
    \/ Submit("client1", MaxSweptJobs)

SpecLifecycle == Init /\ [][NextLifecycle]_vars

\* The same, with a thread that serves /status requests.
NextStatus ==
    \/ Tick
    \/ Worker
    \/ Sweeper
    \/ Submit("client1", MaxQueriedJobs)
    \/ GetStatus(Reader, 1..MaxQueriedJobs)

SpecStatus == Init /\ [][NextStatus]_vars

\* The same, with a thread that serves /result requests.
NextResult ==
    \/ Tick
    \/ Worker
    \/ Sweeper
    \/ Submit("client1", MaxQueriedJobs)
    \/ GetResult(Reader, 1..MaxQueriedJobs)

SpecResult == Init /\ [][NextResult]_vars

\* Everything: one thread submits and one serves /status and /result.
Next ==
    \/ Tick
    \/ Worker
    \/ Sweeper
    \/ Submit("client1", MaxQueriedJobs)
    \/ GetStatus(Reader, 1..MaxQueriedJobs)
    \/ GetResult(Reader, 1..MaxQueriedJobs)

Spec == Init /\ [][Next]_vars

\* One thread submits and one serves /status and /result while the worker runs
\* and the cleanup worker sleeps (CLEANUP_INTERVAL); the worker thread is
\* scheduled again and again.
NextQuery ==
    \/ Worker
    \/ Submit("client1", MaxQueriedJobs)
    \/ GetStatus(Reader, 1..MaxQueriedJobs)
    \/ GetResult(Reader, 1..MaxQueriedJobs)

SpecQuery == Init /\ [][NextQuery]_vars /\ WF_vars(Worker)

\* One thread submits job after job and one serves /status while the worker
\* runs and the cleanup worker sleeps.
NextPosition ==
    \/ Worker
    \/ Submit("client1", MaxWaitingJobs)
    \/ GetStatus(Reader, 1..MaxWaitingJobs)

SpecPosition == Init /\ [][NextPosition]_vars

\* The lifecycle runs under fair scheduling: the worker thread and the cleanup
\* thread each get to take their next step whenever it stays possible (a thread
\* that waits for queue_lock gets it once the holder has left its "with" block).
SpecLifecycleFair ==
    Init /\ [][NextLifecycle]_vars /\ WF_vars(Worker) /\ WF_vars(Sweeper)

\* ================================================================ claims
IsPrefix(s, t) == Len(s) <= Len(t) /\ \A i \in 1..Len(s) : s[i] = t[i]

\* thread c takes the step that runs the capacity check of generate_image_endpoint
ChecksCapacity(c) ==
    /\ Free(c)
    /\ req'[c] # req[c]
    /\ req'[c].worker_was # "unknown"

\* C1 (as claimed): under every interleaving of submissions and worker dequeues
\* the length of job_queue never exceeds MAX_QUEUE_SIZE. The capacity check and
\* the append are two critical sections, so this is violated.
C1_QueueNeverExceedsMax == Len(job_queue) <= MAX_QUEUE_SIZE

\* C2: a submission whose capacity check runs while the queue holds
\* MAX_QUEUE_SIZE (or more) jobs returns 503 "busy" and changes neither
\* job_queue nor job_results nor any record, and no id is handed out.
C2_FullQueueRejects ==
    [][\A c \in Clients :
          (ChecksCapacity(c) /\ Len(job_queue) >= MAX_QUEUE_SIZE)
          => /\ req'[c].pc = "done"
             /\ req'[c].response.code = 503
             /\ req'[c].response.error = ErrBusy
             /\ req'[c].response.job_id = None
             /\ UNCHANGED <<job_queue, job_results, rec, next_id>>]_vars

\* C2 witness: a handler has returned 503 and the queue is at capacity
C2_Witness ==
    \E c \in Clients :
        /\ req[c].pc = "done"
        /\ req[c].response.code = 503
        /\ Len(job_queue) = MAX_QUEUE_SIZE

\* C3: jobs are popped in the order they were appended, and each job popped
\* before another one has left "queued" by the time the other one is popped.
C3_FifoOrder ==
    /\ IsPrefix(dequeued, appended)
    /\ \A i \in 1..Len(dequeued) : i < Len(dequeued) => rec[dequeued[i]].status # "queued"

\* C3 witness: two jobs were appended in the order 2, 1 (the ids were drawn
\* in the other order) and the worker has popped both, 2 first
C3_Witness ==
    /\ appended = <<2, 1>>
    /\ dequeued = <<2, 1>>
    /\ rec[1].status = "processing"

\* C10: a submission whose capacity check finds fewer than MAX_QUEUE_SIZE ids
\* in job_queue is let in, whether or not the worker is processing a job: the
\* limit counts the queued jobs only.
C10_AdmissionReopens ==
    [][\A c \in Clients :
          (ChecksCapacity(c) /\ Len(job_queue) < MAX_QUEUE_SIZE)
          => req'[c].pc = "sub_validate"]_vars

\* C10 witness: capacity 2; a submission was rejected while the worker held
\* no job (jobs 1 and 2 were queued); after the worker popped job 1 another one
\* was accepted as job 3, and job 1 is still processing
C10_Witness ==
    /\ MAX_QUEUE_SIZE = 2
    /\ \E a, b \in Clients :
        /\ req[a].pc = "done" /\ req[a].response.code = 503 /\ req[a].worker_was = "idle"
        /\ req[b].pc = "done" /\ req[b].response.code = 202 /\ req[b].worker_was = "busy"
        /\ req[b].response.job_id = 3
    /\ rec[1].status = "processing"
    /\ job_queue = <<2, 3>>

\* the transitions a record's status may make
StatusEdges ==
    {<<"none", "queued">>, <<"queued", "processing">>,
     <<"processing", "completed">>, <<"processing", "failed">>}

\* C4: a record's status only moves queued -> processing -> completed or
\* failed; no step takes it back and no step changes a completed or failed one.
C4_StatusMonotone ==
    [][\A j \in JobIds :
          rec'[j].status # rec[j].status
          => <<rec[j].status, rec'[j].status>> \in StatusEdges]_vars

\* C4 witness: one job has gone all the way to failed, the next to completed,
\* and the first one's record has outlived a sweep
C4_Witness ==
    /\ rec[1].status = "failed"
    /\ rec[2].status = "completed"
    /\ s_time # Absent

\* a sweep has run to its end
SweepDone == s_pc = "sleep" /\ s_time # Absent

\* C5 (as claimed): once a sweep has run, no job that had been completed or
\* failed for longer than JOB_RESULT_TTL when the sweep read the clock is left
\* in job_results. A failed job gets no completion_time and is never removed.
C5_TerminalJobsSwept ==
    SweepDone =>
        \A j \in JobIds :
            (terminal_at[j] # Absent /\ (s_time - terminal_at[j]) > JOB_RESULT_TTL)
            => ~Present(j)

\* C6 (as claimed): after a sweep, every job whose completion_time was more
\* than JOB_RESULT_TTL before the sweep's current_time is gone from job_results
\* and its result file is gone from the disk.
C6_EvictionLaw ==
    SweepDone =>
        \A j \in JobIds :
            (rec[j].completion_time # Absent
                /\ (s_time - rec[j].completion_time) > JOB_RESULT_TTL)
            => (~Present(j) /\ rec[j].result_path \notin files)

\* C6 (amended): ... is gone from job_results, and its result file is gone
\* from the disk unless os.remove raised OSError for it, which the sweep logs.
C6_EvictionLawBestEffort ==
    SweepDone =>
        \A j \in JobIds :
            (rec[j].completion_time # Absent
                /\ (s_time - rec[j].completion_time) > JOB_RESULT_TTL)
            => /\ ~Present(j)
               /\ rec[j].result_path \in files => rec[j].result_path \in delete_warnings

\* C6 witness: a sweep has removed an expired job, record and file
C6_Witness ==
    /\ SweepDone
    /\ \E j \in JobIds :
        /\ rec[j].completion_time # Absent
        /\ (s_time - rec[j].completion_time) > JOB_RESULT_TTL
        /\ ~Present(j)
        /\ rec[j].result_path \notin files
        /\ delete_warnings = {}

\* the worker is in an except clause: pipe(), save() or the update raised
Raised == w_pc \in {"exc_oom", "exc_runtime", "exc_other"}

\* C9: whatever the compute call or the save raises, the worker's next step
\* records the job as failed with a message, and from a failed job the worker
\* runs its finally block and comes back to the head of the loop: it never
\* leaves the loop.
C9_FailureIsolated ==
    [][/\ (Raised /\ w_pc' # w_pc)
          => /\ rec'[w_job].status = "failed"
             /\ rec'[w_job].error \in {ErrOOM, ErrRuntime, ErrServer}
             /\ w_pc' = "finally"
       /\ (w_job # None /\ rec[w_job].status = "failed")
          => w_pc' \in {"finally", "del_image", "del_generator", "sleep", "idle"}]_vars

\* C9 witness: save() raised for job 1, which is failed, and the worker has
\* gone on to job 2
C9_Witness ==
    /\ rec[1].status = "failed"
    /\ rec[1].error = ErrServer
    /\ w_job = 2
    /\ rec[2].status = "processing"

\* get_status has returned its 200 response
StatusReturned ==
    /\ req[Reader].pc = "done"
    /\ req[Reader].response.code = 200
    /\ req[Reader].response.job_id # None

\* C7 (as claimed): a /status response carries a queue position if and only
\* if the status it reports is "queued". get_status reads the status twice and
\* the queue once, all outside the lock, so the worker's pop can fall between.
C7_PositionIffQueued ==
    StatusReturned =>
        (req[Reader].response.queue_position # Absent
            <=> req[Reader].response.status = "queued")

\* the messages the worker records in a failed job
FailureMessages == {ErrOOM, ErrRuntime, ErrServer}

\* C8: get_result answers by the state of the job: 404 exactly when the id had
\* no record at the lookup; 202 "not yet complete" only for a job that was
\* queued or processing; for a failed job 500 with the recorded error; for a
\* completed job the file at result_path, or a 500 that is none of the failure
\* messages when that file is not there.
C8_ResultOutcomes ==
    LET r == req[Reader]
        resp == r.response
        job == rec[r.job_id]
    IN  r.pc = "done" =>
          /\ resp.code \in {200, 202, 404, 500}
          /\ resp.code = 404 <=> r.seen = "none"
          /\ resp.code = 404 => resp.error = ErrNotFound
          /\ resp.code = 202 => (r.seen \in {"queued", "processing"} /\ resp.error = ErrNotReady)
          /\ r.seen = "failed"
             => (resp.code = 500 /\ resp.error = job.error /\ resp.error \in FailureMessages)
          /\ r.seen = "completed"
             => \/ resp.code = 200
                \/ resp.code = 500 /\ resp.error \in {ErrMissing, ErrInternal}
          /\ resp.code = 200
             => (job.status = "completed" /\ resp.file # None /\ resp.file = job.result_path)
          /\ (resp.code = 500 /\ resp.error \in FailureMessages)
             => (job.status = "failed" /\ resp.error = job.error)
          /\ (resp.code = 500 /\ resp.error \notin FailureMessages)
             => /\ resp.error \in {ErrMissing, ErrInternal}
                /\ job.status = "completed"
                /\ job.result_path \notin files

\* C8 witness: get_result found a completed record whose file is not there
\* and has returned the 500 "Result for this job is missing."
C8_Witness ==
    /\ req[Reader].pc = "done"
    /\ req[Reader].seen = "completed"
    /\ req[Reader].response.code = 500
    /\ req[Reader].response.error = ErrMissing

\* job j has failed with the out-of-memory message
FailedOOM(j) == rec[j].status = "failed" /\ rec[j].error = ErrOOM

\* C11: a job whose pipe() call raises torch.cuda.OutOfMemoryError becomes
\* failed with the insufficient-GPU-memory message and stays so; a /status
\* request that finds it failed reports "failed" with that message, and a
\* /result request that finds it failed returns 500 with the same message.
C11_OomFailureReported ==
    /\ \A j \in JobIds : (w_pc = "exc_oom" /\ w_job = j) ~> FailedOOM(j)
    /\ [][\A j \in JobIds : FailedOOM(j) => FailedOOM(j)']_vars
    /\ [](LET r == req[Reader] IN
            (r.pc = "done" /\ r.seen = "failed" /\ rec[r.job_id].error = ErrOOM)
            => IF StatusReturned
               THEN r.response.status = "failed" /\ r.response.error = ErrOOM
               ELSE r.response.code = 500 /\ r.response.error = ErrOOM)

\* C11 witness: pipe() raised OutOfMemoryError for job 1 and /result/1 has
\* returned the 500 with the message the worker recorded
C11_Witness ==
    /\ FailedOOM(1)
    /\ req[Reader].pc = "done"
    /\ req[Reader].job_id = 1
    /\ req[Reader].seen = "failed"
    /\ req[Reader].response.code = 500
    /\ req[Reader].response.error = ErrOOM

\* the cleanup worker takes a step
SweeperSteps == sweeperVars' # sweeperVars

\* C12: the cleanup worker selects no job without completion_time, and none of
\* its steps removes or changes the record of such a job or takes its id out of
\* job_queue: a queued or processing job stays where it is across every sweep.
C12_SweeperSparesUnfinished ==
    /\ [](\A i \in 1..Len(s_expired) : rec[s_expired[i]].completion_time # Absent)
    /\ [][SweeperSteps =>
            /\ job_queue' = job_queue
            /\ \A j \in JobIds :
                  (Present(j) /\ rec[j].completion_time = Absent)
                  => (Present(j)' /\ rec'[j] = rec[j])]_vars

\* C12 witness: a sweep is under way that found job 1 expired and passed over
\* job 2, which is queued
C12_Witness ==
    /\ s_pc = "delete"
    /\ job_results = <<1, 2>>
    /\ s_expired = <<1>>
    /\ rec[2].status = "queued"
    /\ job_queue = <<2>>

\* job j was expired when the latest sweep read the clock
ExpiredAtSweep(j) ==
    /\ s_time # Absent
    /\ rec[j].completion_time # Absent
    /\ (s_time - rec[j].completion_time) > JOB_RESULT_TTL

\* C13: when os.remove fails for an expired job the sweep goes on: that job's
\* record is removed in the same round, the loop moves to the next expired
\* job, and every job that was expired at the sweep is either still waiting its
\* turn in the running sweep or gone from job_results.
C13_DeleteFailureSkipped ==
    /\ [][delete_warnings' # delete_warnings =>
            /\ Head(s_expired) \notin Range(job_results')
            /\ s_expired' = Tail(s_expired)
            /\ s_pc' = IF Tail(s_expired) = <<>> THEN "sleep" ELSE "delete"]_vars
    /\ [](\A j \in JobIds :
            ExpiredAtSweep(j)
            => (~Present(j) \/ (s_pc = "delete" /\ j \in Range(s_expired))))
    /\ [](s_pc \in {"sleep", "delete"})

\* C13 witness: in a sweep that found jobs 1 and 2 expired, os.remove failed
\* for job 1; its record is gone, its file is still there, and the sweep is
\* about to remove job 2
C13_Witness ==
    /\ s_pc = "delete"
    /\ s_expired = <<2>>
    /\ delete_warnings = {1}
    /\ 1 \in files
    /\ job_results = <<2>>

\* C14: a record has a result_path exactly when it is completed, and at every
\* later moment it is the path that the completing update stored (the file
\* save() wrote for that job): no step changes it. Every /result request that
\* finds the job completed returns the file at that path, as long as the sweep
\* has not deleted the file.
C14_ResultPathStable ==
    /\ \A j \in JobIds :
          /\ rec[j].result_path # None <=> rec[j].status = "completed"
          /\ rec[j].result_path = saved_as[j]
          /\ saved_as[j] \in {None, j}
    /\ LET r == req[Reader] IN
          (r.pc = "done" /\ r.seen = "completed")
          => /\ r.response.code = 200 => r.response.file = saved_as[r.job_id]
             /\ saved_as[r.job_id] \in files => r.response.code = 200

\* C14 witness: /result/1 has returned the file of the completed job 1, which
\* is still in job_results
C14_Witness ==
    /\ req[Reader].pc = "done"
    /\ req[Reader].seen = "completed"
    /\ req[Reader].response.code = 200
    /\ req[Reader].response.file = 1
    /\ rec[1].result_path = 1
    /\ Present(1)

\* the jobs in job_results whose status is "processing"
ProcessingJobs == {j \in Range(job_results) : rec[j].status = "processing"}

\* C15: at most one record in job_results has status "processing", and it is
\* the record of the job the worker holds.
C15_OneProcessing ==
    /\ Cardinality(ProcessingJobs) <= 1
    /\ ProcessingJobs \subseteq {w_job}

\* C15 witness: job 1 has failed, job 2 is processing and job 3 waits in the queue
C15_Witness ==
    /\ rec[1].status = "failed"
    /\ ProcessingJobs = {2}
    /\ job_queue = <<3>>

\* C16: whenever no thread holds queue_lock, the ids in job_queue are exactly
\* the ids whose record is in job_results with status "queued", and no id is
\* in the queue twice.
C16_QueueIffQueued ==
    queue_lock = "free" =>
        /\ \A j \in JobIds :
              j \in Range(job_queue) <=> (Present(j) /\ rec[j].status = "queued")
        /\ Cardinality(Range(job_queue)) = Len(job_queue)

\* C16 witness: the lock is free, jobs 3 and 2 are queued in this order (job 3
\* was appended first) and job 1, popped before, is completed
C16_Witness ==
    /\ queue_lock = "free"
    /\ job_queue = <<3, 2>>
    /\ rec[1].status = "completed"

\* C17 (as claimed): a record has a completion_time exactly when its status is
\* "completed" or "failed", and it is the time of the update that made the status
\* terminal. The except clauses set "failed" without a completion_time.
C17_CompletionTimeIffTerminal ==
    \A j \in JobIds :
        /\ rec[j].status \in {"completed", "failed"} <=> rec[j].completion_time # Absent
        /\ rec[j].completion_time = terminal_at[j]

\* a step changes the queue, the store or a record
MutatesShared == job_queue' # job_queue \/ job_results' # job_results \/ rec' # rec

\* the worker takes a step
WorkerSteps == workerVars' # workerVars

\* the positions at which get_status and get_result read the record or the queue
ReadPositions ==
    {"st_status", "st_index", "st_response", "st_error",
     "rs_status", "rs_exists", "rs_failed", "rs_pending"}

\* a handler reads a field of the record it looked up, or the queue
HandlerReads == \E c \in Threads : req[c].pc \in ReadPositions /\ req'[c] # req[c]

\* C18 (as claimed): every step that changes job_queue, job_results or a
\* record is taken by a thread that holds queue_lock (it takes the free lock for
\* the step, or it is the holder), and so is every read a handler makes of a
\* record or of the queue. The worker changes params outside the lock, before
\* pipe() and in its finally block, and the handlers read outside the lock.
C18_MutationsUnderLock ==
    [][/\ MutatesShared =>
            \/ queue_lock = "free"
            \/ queue_lock = "worker" /\ WorkerSteps
            \/ queue_lock = "sweeper" /\ SweeperSteps
       /\ HandlerReads => queue_lock = "free"]_vars

\* a step saves a result file, deletes one, or fails to delete one
FileIO == files' # files \/ delete_warnings' # delete_warnings

\* C19 (as claimed): no thread holds queue_lock in the step in which it runs
\* pipe(), saves a result file or deletes one. The worker computes and saves
\* outside the lock; the cleanup worker calls os.remove inside its "with
\* queue_lock" block.
C19_NoComputeOrFileIoUnderLock ==
    [][/\ (WorkerSteps /\ (w_pc = "pipe" \/ FileIO)) => queue_lock # "worker"
       /\ (SweeperSteps /\ FileIO) => queue_lock # "sweeper"]_vars

\* C20: as long as the worker has popped nothing, a /status response for a
\* submitted job reports it queued at its rank in submission order: position k
\* for the k-th job appended, so 1..k-1 for the jobs before it.
C20_PositionIsRank ==
    LET resp == req[Reader].response IN
        (StatusReturned /\ dequeued = <<>>)
        => /\ resp.status = "queued"
           /\ resp.queue_position \in 1..Len(appended)
           /\ appended[resp.queue_position] = resp.job_id

\* C20 witness: jobs 1 and 2 were submitted one after the other, nothing has
\* been popped, and /status/2 has reported position 2
C20_Witness ==
    /\ StatusReturned
    /\ dequeued = <<>>
    /\ job_queue = <<1, 2>>
    /\ req[Reader].response.job_id = 2
    /\ req[Reader].response.queue_position = 2

\* C21 (as claimed): under fair scheduling, with pipe() always returning or
\* raising, every job that is in job_queue is eventually completed or failed.
\* A worker thread that has died on a KeyError (C22) takes no further job.
C21_EveryJobTerminates ==
    \A j \in JobIds :
        (j \in Range(job_queue)) ~> (rec[j].status \in {"completed", "failed"})

\* the positions at which the worker evaluates job_results[job_id]
IndexingPositions ==
    {"mark", "prep", "complete", "exc_oom", "exc_runtime", "exc_other",
     "del_image", "del_generator"}

\* C22 (as claimed): at every step in which the worker indexes
\* job_results[job_id], the finally block's two del statements included, the
\* record is in job_results, and the worker thread never ends on a KeyError.
\* The finally block runs outside the lock, after the job has a completion_time.
C22_WorkerRecordPresent ==
    /\ [][(WorkerSteps /\ w_pc \in IndexingPositions) => Present(w_job)]_vars
    /\ [](w_pc # "dead")

\* C23 (as claimed): a /result request for a job whose result file was saved,
\* whose lookup found the job completed or found no record, returns the file
\* or 404, never a 500 for a missing file. get_result checks and sends the
\* file outside the lock, where a sweep can delete it after the lookup.
C23_NoMissingArtifactFault ==
    LET r == req[Reader] IN
        (/\ r.pc = "done"
         /\ r.job_id # None
         /\ saved_as[r.job_id] # None
         /\ r.seen \in {"none", "completed"})
        => /\ r.response.code \in {200, 404}
           /\ r.response.error \notin {ErrMissing, ErrInternal}

====
